---- MODULE Spec2Model ----
(***************************************************************************)
(* Package resolution of parthenon: StateDescriptor::AddField,             *)
(* StateDescriptor::AddSwarmValue, StateDescriptor::ValidateMetadata, the  *)
(* DependencyTracker helper and ResolvePackages.                           *)
(*                                                                         *)
(* A run builds the packages (each one a StateDescriptor filled by         *)
(* AddField / AddSwarm / AddSwarmValue calls), then ResolvePackages walks  *)
(* them: one step per DependencyTracker::Sort call of the first loop, one  *)
(* step for the two CheckRequires calls, one step per CheckOverridable     *)
(* call.  An exception unwinds ResolvePackages: the resolved state and the *)
(* trackers are locals of the call and are destroyed.  Every loop over an  *)
(* unordered container visits its keys in some order; the order is kept,   *)
(* so that a second call (SpecRerun) iterates as the first one did.        *)
(***************************************************************************)
EXTENDS Integers, Sequences, FiniteSets, TLC

\* ------------------------------------------------------------------ bounds
\* total number of AddField / AddSwarm / AddSwarmValue calls that build packages
MaxDecls == 3
\* sparse ids are 1..MaxId
MaxId == 2
\* shape/flag classes a Metadata can have are 1..NumShapes
NumShapes == 2
\* number of calls made on one descriptor in the specification SpecAdd
MaxCalls == 4

Packages == {"A", "B"}
Names == {"X", "Y"}
ValueNames == {"v", "w"}
Assocs == {"", "Z"}

\* ---------------------------------------------------------------- Metadata
None == "None"
Private == "Private"
Provides == "Provides"
Requires == "Requires"
Overridable == "Overridable"

Dependencies == {None, Private, Provides, Requires, Overridable}

\* The Metadata record: its dependency flag, the Sparse flag, the sparse id,
\* shape and remaining flags (one value, compared by SparseEqual) and the
\* associated name.
Metadata ==
  [dep : Dependencies, sparse : BOOLEAN, id : 0..MaxId, shape : 1..NumShapes,
   assoc : Assocs \cup Names]

PlainMeta(dep, shape, assoc) ==
  [dep |-> dep, sparse |-> FALSE, id |-> 0, shape |-> shape, assoc |-> assoc]

SparseMeta(dep, id, shape) ==
  [dep |-> dep, sparse |-> TRUE, id |-> id, shape |-> shape, assoc |-> ""]

\* Metadata::SparseEqual: same flags and shape, the sparse id ignored
SparseEqual(a, b) == a.shape = b.shape

\* Metadata::Associate
Associate(m, name) == [m EXCEPT !.assoc = name]

\* --------------------------------------------------------- StateDescriptor
EmptyMap == <<>>

Put(f, k, v) == [x \in (DOMAIN f) \cup {k} |-> IF x = k THEN v ELSE f[x]]

\* a freshly constructed StateDescriptor
NewDescriptor ==
  [metadataMap |-> EmptyMap, sparseMetadataMap |-> EmptyMap,
   swarmMetadataMap |-> EmptyMap, swarmValueMetadataMap |-> EmptyMap]

\* the outcome of a call on a descriptor: the descriptor after the call and
\* what the call returned ("true", "false") or the exception it threw
Outcome(sd, ret) == [sd |-> sd, ret |-> ret]

Threw(o) == o.ret \notin {"true", "false"}

\* the sparse branch testing the id before the shape and flags
AddFieldSparse_id_first(sd, field_name, m) ==
  IF field_name \in DOMAIN sd.sparseMetadataMap
    THEN LET mvec == sd.sparseMetadataMap[field_name] IN
         IF mvec[1].id = m.id
           THEN Outcome(sd, "false")
           ELSE IF ~SparseEqual(mvec[1], m)
                  THEN Outcome(sd, "SparseMismatch")
                  ELSE Outcome([sd EXCEPT !.sparseMetadataMap[field_name] = Append(mvec, m)],
                               "true")
    ELSE Outcome([sd EXCEPT !.sparseMetadataMap = Put(@, field_name, <<m>>)], "true")

\* StateDescriptor::AddField, the sparse branch
AddFieldSparse(sd, field_name, m) ==
  IF field_name \in DOMAIN sd.sparseMetadataMap
    THEN LET mvec == sd.sparseMetadataMap[field_name] IN
         IF ~SparseEqual(mvec[1], m)
           THEN Outcome(sd, "SparseMismatch")
           ELSE IF mvec[1].id = m.id
                  THEN Outcome(sd, "false")
                  ELSE Outcome([sd EXCEPT !.sparseMetadataMap[field_name] = Append(mvec, m)],
                               "true")
    ELSE Outcome([sd EXCEPT !.sparseMetadataMap = Put(@, field_name, <<m>>)], "true")

\* the dense branch without the m.Associate("") of line 152
AddFieldPlain_keeps_association(sd, field_name, m_in) ==
  LET m == IF m_in.assoc = "" THEN Associate(m_in, field_name) ELSE m_in IN
  IF field_name \in DOMAIN sd.metadataMap
    THEN Outcome(sd, "false")
    ELSE Outcome([sd EXCEPT !.metadataMap = Put(@, field_name, m)], "true")

\* the dense branch storing the new metadata over the entry already there
AddFieldPlain_last_wins(sd, field_name, m_in) ==
  LET m == IF m_in.assoc = "" THEN Associate(m_in, field_name) ELSE m_in IN
  IF field_name \in DOMAIN sd.metadataMap
    THEN Outcome([sd EXCEPT !.metadataMap = Put(@, field_name, Associate(m, ""))], "false")
    ELSE Outcome([sd EXCEPT !.metadataMap = Put(@, field_name, Associate(m, ""))], "true")

\* StateDescriptor::AddField, the dense branch
AddFieldPlain(sd, field_name, m_in) ==
  LET m == IF m_in.assoc = "" THEN Associate(m_in, field_name) ELSE m_in IN
  IF field_name \in DOMAIN sd.metadataMap
    THEN Outcome(sd, "false")
    ELSE Outcome([sd EXCEPT !.metadataMap = Put(@, field_name, Associate(m, ""))], "true")

AddField(sd, field_name, m_in) ==
  IF m_in.sparse THEN AddFieldSparse(sd, field_name, m_in)
                 ELSE AddFieldPlain(sd, field_name, m_in)

\* StateDescriptor::AddSwarm
AddSwarm(sd, swarm_name, m) ==
  IF swarm_name \in DOMAIN sd.swarmMetadataMap
    THEN Outcome(sd, "SwarmExists")
    ELSE Outcome([sd EXCEPT !.swarmMetadataMap = Put(@, swarm_name, m)], "true")

\* StateDescriptor::AllSwarmValues
AllSwarmValues(sd, swarm_name) ==
  IF swarm_name \in DOMAIN sd.swarmValueMetadataMap
    THEN sd.swarmValueMetadataMap[swarm_name]
    ELSE EmptyMap

\* StateDescriptor::SwarmPresent
SwarmPresent(sd, swarm_name) == swarm_name \in DOMAIN sd.swarmMetadataMap

\* AddSwarmValue without the test of lines 120-122
AddSwarmValue_overwrites(sd, value_name, swarm_name, m) ==
  IF swarm_name \notin DOMAIN sd.swarmMetadataMap
    THEN Outcome(sd, "UnknownSwarm")
    ELSE Outcome([sd EXCEPT !.swarmValueMetadataMap =
                    Put(@, swarm_name, Put(AllSwarmValues(sd, swarm_name), value_name, m))],
                 "true")

\* StateDescriptor::AddSwarmValue
AddSwarmValue(sd, value_name, swarm_name, m) ==
  IF swarm_name \notin DOMAIN sd.swarmMetadataMap
    THEN Outcome(sd, "UnknownSwarm")
    ELSE IF value_name \in DOMAIN AllSwarmValues(sd, swarm_name)
           THEN Outcome(sd, "DuplicateSwarmValue")
           ELSE Outcome([sd EXCEPT !.swarmValueMetadataMap =
                           Put(@, swarm_name, Put(AllSwarmValues(sd, swarm_name), value_name, m))],
                        "true")

\* the dependency ValidateMetadata leaves on one Metadata
Validated(m) == IF m.dep = None THEN [m EXCEPT !.dep = Provides] ELSE m

\* ValidateMetadata with a MetadataLoop that leaves out the sparse fields
ValidateMetadata_skips_sparse(sd) ==
  [sd EXCEPT
     !.metadataMap = [k \in DOMAIN @ |-> Validated(@[k])],
     !.swarmMetadataMap = [k \in DOMAIN @ |-> Validated(@[k])]]

\* StateDescriptor::ValidateMetadata: MetadataLoop over every field, every
\* sparse id and every swarm
ValidateMetadata(sd) ==
  [sd EXCEPT
     !.metadataMap = [k \in DOMAIN @ |-> Validated(@[k])],
     !.sparseMetadataMap = [k \in DOMAIN @ |-> [i \in DOMAIN @[k] |-> Validated(@[k][i])]],
     !.swarmMetadataMap = [k \in DOMAIN @ |-> Validated(@[k])]]

\* ------------------------------------------------------- DependencyTracker
NewTracker ==
  [provided_vars |-> {}, depends_vars |-> {}, overridable_vars |-> EmptyMap,
   sparse_added |-> {}, overridable_meta |-> EmptyMap]

NoError == [kind |-> "none", var |-> ""]
Error(kind, var) == [kind |-> kind, var |-> var]

VARIABLES
  packages,       \* Packages_t: label -> StateDescriptor
  nDecls,         \* calls made so far to build the packages
  pc,             \* where ResolvePackages stands
  order,          \* the order in which the loops over `packages` visit the labels
  it,             \* position of the first loop: package index and what is left of it
  state,          \* the resolved StateDescriptor under construction
  var_tracker,
  swarm_tracker,
  err,            \* the exception that ended ResolvePackages
  warned,         \* variables PARTHENON_DEBUG_WARN was called for
  last,           \* the last call made on `state` from outside ResolvePackages
  iter,           \* the order in which each container was last iterated over
  first           \* how an earlier call of ResolvePackages on these packages ended

vars ==
  <<packages, nDecls, pc, order, it, state, var_tracker, swarm_tracker, err, warned, last,
    iter, first>>

\* every order in which a loop can visit the keys of an unordered container
RECURSIVE Perms(_)
Perms(S) ==
  IF S = {} THEN {<<>>}
  ELSE UNION {{<<x>> \o q : q \in Perms(S \ {x})} : x \in S}

QualifiedName(package, var) == package \o "::" \o var

\* for (auto &m : mvec) state->AddField(name, m), from element i on
RECURSIVE AddFieldAll(_, _, _, _)
AddFieldAll(sd, name, mvec, i) ==
  IF i > Len(mvec) THEN Outcome(sd, "true")
  ELSE LET o == AddField(sd, name, mvec[i]) IN
       IF Threw(o) THEN o ELSE AddFieldAll(o.sd, name, mvec, i + 1)

\* for (auto &p : vals) state->AddSwarmValue(p.first, swarm_name, p.second)
RECURSIVE AddSwarmValues(_, _, _)
AddSwarmValues(sd, swarm_name, vals) ==
  IF DOMAIN vals = {} THEN Outcome(sd, "true")
  ELSE LET v == CHOOSE x \in DOMAIN vals : TRUE
           o == AddSwarmValue(sd, v, swarm_name, vals[v])
       IN IF Threw(o) THEN o
          ELSE AddSwarmValues(o.sd, swarm_name, [x \in (DOMAIN vals) \ {v} |-> vals[x]])

\* ------------------------------------------ the lambdas of ResolvePackages
add_private_var(st, package, var, metadata) ==
  AddField(st, QualifiedName(package, var), metadata)

\* add_provides_var storing under the package-qualified name, as add_private_var does
add_provides_var_qualified(st, package, var, metadata) ==
  AddField(st, QualifiedName(package, var), metadata)

add_provides_var(st, package, var, metadata) == AddField(st, var, metadata)

add_overridable_var(st, var, metadata) == AddField(st, var, metadata)

add_private_sparse(st, package, var, metadata) ==
  AddFieldAll(st, QualifiedName(package, var), packages[package].sparseMetadataMap[var], 1)

add_provides_sparse(st, package, var, metadata) ==
  AddFieldAll(st, var, packages[package].sparseMetadataMap[var], 1)

\* the lambda AddSwarm reading the package's values under the resolved name
ResolveAddSwarm_values_of_resolved_name(st, package, swarm, swarm_name, metadata) ==
  LET o == AddSwarm(st, swarm_name, metadata) IN
  IF Threw(o) THEN o ELSE AddSwarmValues(o.sd, swarm_name, AllSwarmValues(package, swarm_name))

\* the lambda AddSwarm of ResolvePackages
ResolveAddSwarm(st, package, swarm, swarm_name, metadata) ==
  LET o == AddSwarm(st, swarm_name, metadata) IN
  IF Threw(o) THEN o ELSE AddSwarmValues(o.sd, swarm_name, AllSwarmValues(package, swarm))

add_private_swarm(st, package, var, metadata) ==
  ResolveAddSwarm(st, packages[package], var, QualifiedName(package, var), metadata)

add_provides_swarm(st, package, var, metadata) ==
  ResolveAddSwarm(st, packages[package], var, var, metadata)

\* the labels, in loop order, of the packages that hold the swarm
SwarmHolders(swarm) ==
  SelectSeq(order, LAMBDA label : SwarmPresent(packages[label], swarm))

add_overridable_swarm(st, swarm, metadata) ==
  LET o == AddSwarm(st, swarm, metadata) IN
  IF Threw(o) THEN o
  ELSE IF SwarmHolders(swarm) = <<>> THEN o
       ELSE AddSwarmValues(o.sd, swarm, AllSwarmValues(packages[SwarmHolders(swarm)[1]], swarm))

\* the add_private / add_provides / add_to_state argument passed with each
\* collection: "var" for AllFields, "sparse" for AllSparseFields, "swarm"
\* for AllSwarms
add_private(adder, st, package, var, metadata) ==
  CASE adder = "var" -> add_private_var(st, package, var, metadata)
    [] adder = "sparse" -> add_private_sparse(st, package, var, metadata)
    [] adder = "swarm" -> add_private_swarm(st, package, var, metadata)

add_provides(adder, st, package, var, metadata) ==
  CASE adder = "var" -> add_provides_var(st, package, var, metadata)
    [] adder = "sparse" -> add_provides_sparse(st, package, var, metadata)
    [] adder = "swarm" -> add_provides_swarm(st, package, var, metadata)

add_to_state(adder, st, var, metadata) ==
  CASE adder = "var" -> add_overridable_var(st, var, metadata)
    [] adder = "swarm" -> add_overridable_swarm(st, var, metadata)

\* what a step of ResolvePackages leaves: a tracker, the resolved state, the
\* exception thrown (NoError when none) and the warnings printed
Step(tr, st, e, w) == [tr |-> tr, st |-> st, err |-> e, warned |-> w]

Thrown(o, var) == IF Threw(o) THEN Error(o.ret, "") ELSE NoError

\* SortOverridable keeping the last metadata seen for a name, not the first
SortOverridable_last_wins(tr, var, metadata) ==
  LET is_sparse == metadata.sparse
      sparse_id == metadata.id
      t1 == IF var \notin DOMAIN tr.overridable_meta \/ ~is_sparse
              THEN [tr EXCEPT !.overridable_meta = Put(@, var, <<metadata>>),
                              !.sparse_added = IF is_sparse THEN @ \cup {<<var, sparse_id>>}
                                                            ELSE @]
              ELSE tr
      t2 == IF is_sparse /\ <<var, sparse_id>> \notin t1.sparse_added
              THEN [t1 EXCEPT !.overridable_meta[var] = Append(@, metadata),
                              !.sparse_added = @ \cup {<<var, sparse_id>>}]
              ELSE t1
      count == IF var \in DOMAIN t2.overridable_vars THEN t2.overridable_vars[var] ELSE 0
  IN [t2 EXCEPT !.overridable_vars = Put(@, var, count + 1)]

\* SortOverridable without the sparse_added test of line 56
SortOverridable_no_dedup(tr, var, metadata) ==
  LET is_sparse == metadata.sparse
      sparse_id == metadata.id
      t1 == IF var \notin DOMAIN tr.overridable_meta
              THEN [tr EXCEPT !.overridable_meta = Put(@, var, <<metadata>>),
                              !.sparse_added = IF is_sparse THEN @ \cup {<<var, sparse_id>>}
                                                            ELSE @]
              ELSE IF is_sparse
                     THEN [tr EXCEPT !.overridable_meta[var] = Append(@, metadata),
                                     !.sparse_added = @ \cup {<<var, sparse_id>>}]
                     ELSE tr
      count == IF var \in DOMAIN t1.overridable_vars THEN t1.overridable_vars[var] ELSE 0
  IN [t1 EXCEPT !.overridable_vars = Put(@, var, count + 1)]

\* the Overridable branch of DependencyTracker::Sort
SortOverridable(tr, var, metadata) ==
  LET is_sparse == metadata.sparse
      sparse_id == metadata.id
      t1 == IF var \notin DOMAIN tr.overridable_meta
              THEN [tr EXCEPT !.overridable_meta = Put(@, var, <<metadata>>),
                              !.sparse_added = IF is_sparse THEN @ \cup {<<var, sparse_id>>}
                                                            ELSE @]
              ELSE tr
      t2 == IF is_sparse /\ <<var, sparse_id>> \notin t1.sparse_added
              THEN [t1 EXCEPT !.overridable_meta[var] = Append(@, metadata),
                              !.sparse_added = @ \cup {<<var, sparse_id>>}]
              ELSE t1
      count == IF var \in DOMAIN t2.overridable_vars THEN t2.overridable_vars[var] ELSE 0
  IN [t2 EXCEPT !.overridable_vars = Put(@, var, count + 1)]

\* the Private branch of DependencyTracker::Sort
SortPrivate(tr, st, package, var, metadata, adder) ==
  LET o == add_private(adder, st, package, var, metadata) IN
  Step(tr, o.sd, Thrown(o, var), {})

\* SortProvides without the provided_vars test of lines 41-43
SortProvides_unchecked(tr, st, package, var, metadata, adder) ==
  LET o == add_provides(adder, st, package, var, metadata) IN
  Step([tr EXCEPT !.provided_vars = @ \cup {var}], o.sd, Thrown(o, var), {})

\* the Provides branch of DependencyTracker::Sort
SortProvides(tr, st, package, var, metadata, adder) ==
  IF var \in tr.provided_vars
    THEN Step(tr, st, Error("DuplicateProvider", var), {})
    ELSE LET o == add_provides(adder, st, package, var, metadata) IN
         Step([tr EXCEPT !.provided_vars = @ \cup {var}], o.sd, Thrown(o, var), {})

\* the Requires branch of DependencyTracker::Sort
SortRequires(tr, var) == [tr EXCEPT !.depends_vars = @ \cup {var}]

\* DependencyTracker::Sort
Sort(tr, st, package, var, metadata, adder) ==
  LET dependency == metadata.dep IN
  IF dependency = Private THEN SortPrivate(tr, st, package, var, metadata, adder)
  ELSE IF dependency = Provides THEN SortProvides(tr, st, package, var, metadata, adder)
  ELSE IF dependency = Requires THEN Step(SortRequires(tr, var), st, NoError, {})
  ELSE IF dependency = Overridable
    THEN Step(SortOverridable(tr, var, metadata), st, NoError, {})
  ELSE Step(tr, st, Error("UnknownDependency", var), {})

\* CheckRequires taking an overridable registration for a provider
RECURSIVE CheckRequires_overridable_counts(_, _, _)
CheckRequires_overridable_counts(tr, ord, i) ==
  IF i > Len(ord) THEN NoError
  ELSE IF ord[i] \notin tr.provided_vars \cup DOMAIN tr.overridable_vars
         THEN Error("UnsatisfiedRequirement", ord[i])
         ELSE CheckRequires_overridable_counts(tr, ord, i + 1)

\* DependencyTracker::CheckRequires, visiting depends_vars in the order ord
RECURSIVE CheckRequires(_, _, _)
CheckRequires(tr, ord, i) ==
  IF i > Len(ord) THEN NoError
  ELSE IF ord[i] \notin tr.provided_vars THEN Error("UnsatisfiedRequirement", ord[i])
       ELSE CheckRequires(tr, ord, i + 1)

\* the inner loop of CheckOverridable: add_to_state for mvec[j], mvec[j+1], ...
RECURSIVE AddToStateAll(_, _, _, _, _)
AddToStateAll(adder, st, var, mvec, j) ==
  IF j > Len(mvec) THEN Outcome(st, "true")
  ELSE LET o == add_to_state(adder, st, var, mvec[j]) IN
       IF Threw(o) THEN o ELSE AddToStateAll(adder, o.sd, var, mvec, j + 1)

\* CheckOverridable without the provided_vars test of line 95
RECURSIVE CheckOverridable_ignores_provided(_, _, _, _, _, _)
CheckOverridable_ignores_provided(tr, adder, st, w, ord, i) ==
  IF i > Len(ord) THEN Step(tr, st, NoError, w)
  ELSE LET var == ord[i]
           count == tr.overridable_vars[var]
           w1 == IF count > 1 THEN w \cup {<<adder, var>>} ELSE w
           o == AddToStateAll(adder, st, var, tr.overridable_meta[var], 1)
       IN IF Threw(o) THEN Step(tr, o.sd, Thrown(o, var), w1)
          ELSE CheckOverridable_ignores_provided(tr, adder, o.sd, w1, ord, i + 1)

\* DependencyTracker::CheckOverridable, visiting overridable_vars in the order ord
RECURSIVE CheckOverridable(_, _, _, _, _, _)
CheckOverridable(tr, adder, st, w, ord, i) ==
  IF i > Len(ord) THEN Step(tr, st, NoError, w)
  ELSE LET var == ord[i]
           count == tr.overridable_vars[var]
       IN IF var \notin tr.provided_vars
            THEN LET w1 == IF count > 1 THEN w \cup {<<adder, var>>} ELSE w
                     o == AddToStateAll(adder, st, var, tr.overridable_meta[var], 1)
                 IN IF Threw(o) THEN Step(tr, o.sd, Thrown(o, var), w1)
                    ELSE CheckOverridable(tr, adder, o.sd, w1, ord, i + 1)
            ELSE CheckOverridable(tr, adder, st, w, ord, i + 1)

\* ------------------------------------------------------------------ inputs
Shapes == 1..NumShapes
SparseIds == 1..MaxId

\* Names that are declared sparse, and names that are declared as swarms: a
\* sparse field can share its name with a dense field, a swarm with a field.
SparseNames == {"Y"}
SwarmNames == {"X"}

\* Dense fields, swarms and swarm values carry a shape that tells the
\* declaring package: the code copies these records and never compares them.
ShapeOf(label) == IF label = "A" THEN 1 ELSE NumShapes

\* the Metadata the package `label` declares the field `name` with
FieldMetas(label, name) ==
  {PlainMeta(d, ShapeOf(label), "") : d \in Dependencies}
    \cup IF name \in SparseNames
           THEN {SparseMeta(d, i, s) : d \in Dependencies, i \in SparseIds, s \in Shapes}
           ELSE {}

\* the Metadata the packages declare swarms and swarm values with
SwarmMetas(label) == {PlainMeta(d, ShapeOf(label), "") : d \in Dependencies}
ValueMetas(label) == {PlainMeta(None, ShapeOf(label), "")}

\* the Metadata of the calls made on one descriptor in SpecAdd
AddMetas ==
  {PlainMeta(Provides, s, a) : s \in Shapes, a \in Assocs}
    \cup {SparseMeta(Provides, i, s) : i \in SparseIds, s \in Shapes}

NoIt ==
  [p |-> 0, fields |-> <<>>, sparse |-> <<>>, sparseVar |-> "", sparseIdx |-> 0,
   swarms |-> <<>>]

NoCall == [op |-> "none", name |-> "", swarm |-> "", m |-> PlainMeta(None, 1, ""), ret |-> ""]

\* no container has been iterated over yet
NoIter ==
  [fields |-> [label \in Packages |-> <<>>], sparse |-> [label \in Packages |-> <<>>],
   swarms |-> [label \in Packages |-> <<>>], depends |-> [adder \in {"var", "swarm"} |-> <<>>],
   overridable |-> [adder \in {"var", "swarm"} |-> <<>>]]

\* ResolvePackages has not returned or thrown yet
NoOutcome == [pc |-> "none", err |-> NoError, state |-> NewDescriptor]

Range(seq) == {seq[i] : i \in DOMAIN seq}

\* the orders in which a loop can visit the keys S of a container: the order
\* `seen` in which an earlier loop visited these keys, any order otherwise
Orders(seen, S) == IF Range(seen) = S THEN {seen} ELSE Perms(S)

\* -------------------------------------------------------------------- Init
Init ==
  /\ packages = [label \in Packages |-> NewDescriptor]
  /\ nDecls = 0
  /\ pc = "build"
  /\ order = <<>>
  /\ it = NoIt
  /\ state = NewDescriptor
  /\ var_tracker = NewTracker
  /\ swarm_tracker = NewTracker
  /\ err = NoError
  /\ warned = {}
  /\ last = NoCall
  /\ iter = NoIter
  /\ first = NoOutcome

\* ------------------------------------------- the application builds packages
Build(label, o) ==
  /\ pc = "build"
  /\ nDecls < MaxDecls
  /\ o.ret = "true"
  /\ packages' = [packages EXCEPT ![label] = o.sd]
  /\ nDecls' = nDecls + 1
  /\ UNCHANGED <<pc, order, it, state, var_tracker, swarm_tracker, err, warned, last, iter,
                 first>>

\* packages[label]->AddField(name, m)
PackageAddField ==
  \E label \in Packages, name \in Names :
    \E m \in FieldMetas(label, name) :
      Build(label, AddField(packages[label], name, m))

\* packages[label]->AddSwarm(name, m)
PackageAddSwarm ==
  \E label \in Packages, name \in SwarmNames :
    \E m \in SwarmMetas(label) :
      Build(label, AddSwarm(packages[label], name, m))

\* packages[label]->AddSwarmValue(value, swarm, m)
PackageAddSwarmValue ==
  \E label \in Packages, value \in ValueNames, swarm \in SwarmNames :
    \E m \in ValueMetas(label) :
      Build(label, AddSwarmValue(packages[label], value, swarm, m))

\* --------------------------------------------------------- ResolvePackages
\* entry: the resolved state and the two trackers are constructed
StartResolve ==
  /\ pc = "build"
  /\ \E ord \in Perms(Packages) : order' = ord
  /\ pc' = "sort"
  /\ it' = NoIt
  /\ state' = NewDescriptor
  /\ var_tracker' = NewTracker
  /\ swarm_tracker' = NewTracker
  /\ UNCHANGED <<packages, nDecls, err, warned, last, iter, first>>

\* an exception leaves ResolvePackages: its locals are destroyed
Fail(e) ==
  /\ pc' = "failed"
  /\ err' = e
  /\ it' = NoIt
  /\ state' = NewDescriptor
  /\ var_tracker' = NewTracker
  /\ swarm_tracker' = NewTracker
  /\ UNCHANGED <<packages, nDecls, order, last, first>>

PackageDone == it.fields = <<>> /\ it.sparse = <<>> /\ it.swarms = <<>>

\* the head of the first loop's body: package->ValidateMetadata(); the three
\* loops of the body will visit the package's containers in some order
BeginPackage ==
  /\ pc = "sort"
  /\ PackageDone
  /\ it.p < Len(order)
  /\ LET label == order[it.p + 1]
         sd == ValidateMetadata(packages[label])
     IN /\ packages' = [packages EXCEPT ![label] = sd]
        /\ \E fields \in Orders(iter.fields[label], DOMAIN sd.metadataMap),
              sparse \in Orders(iter.sparse[label], DOMAIN sd.sparseMetadataMap),
              swarms \in Orders(iter.swarms[label], DOMAIN sd.swarmMetadataMap) :
             /\ it' = [p |-> it.p + 1, fields |-> fields, sparse |-> sparse,
                       sparseVar |-> "", sparseIdx |-> 0, swarms |-> swarms]
             /\ iter' = [iter EXCEPT !.fields[label] = fields, !.sparse[label] = sparse,
                                     !.swarms[label] = swarms]
  /\ UNCHANGED <<nDecls, pc, order, state, var_tracker, swarm_tracker, err, warned, last,
                 first>>

\* one Sort call of var_tracker.SortCollection(label, AllFields(), ...)
SortField ==
  /\ pc = "sort"
  /\ it.fields # <<>>
  /\ LET label == order[it.p]
         var == Head(it.fields)
         r == Sort(var_tracker, state, label, var, packages[label].metadataMap[var], "var")
     IN IF r.err # NoError THEN Fail(r.err) /\ UNCHANGED <<warned, iter>>
        ELSE /\ var_tracker' = r.tr
             /\ state' = r.st
             /\ it' = [it EXCEPT !.fields = Tail(@)]
             /\ UNCHANGED <<packages, nDecls, pc, order, swarm_tracker, err, warned, last,
                            iter, first>>

\* one Sort call of the loop over AllSparseFields() and its vectors
SortSparse ==
  /\ pc = "sort"
  /\ it.fields = <<>>
  /\ it.sparse # <<>>
  /\ LET label == order[it.p]
         var == Head(it.sparse)
         mvec == packages[label].sparseMetadataMap[var]
         i == IF it.sparseVar = "" THEN 1 ELSE it.sparseIdx
         r == Sort(var_tracker, state, label, var, mvec[i], "sparse")
     IN IF r.err # NoError THEN Fail(r.err) /\ UNCHANGED <<warned, iter>>
        ELSE /\ var_tracker' = r.tr
             /\ state' = r.st
             /\ it' = IF i = Len(mvec)
                        THEN [it EXCEPT !.sparse = Tail(@), !.sparseVar = "",
                                        !.sparseIdx = 0]
                        ELSE [it EXCEPT !.sparseVar = var, !.sparseIdx = i + 1]
             /\ UNCHANGED <<packages, nDecls, pc, order, swarm_tracker, err, warned, last,
                            iter, first>>

\* one Sort call of swarm_tracker.SortCollection(label, AllSwarms(), ...)
SortSwarm ==
  /\ pc = "sort"
  /\ it.fields = <<>>
  /\ it.sparse = <<>>
  /\ it.swarms # <<>>
  /\ LET label == order[it.p]
         var == Head(it.swarms)
         r == Sort(swarm_tracker, state, label, var, packages[label].swarmMetadataMap[var],
                   "swarm")
     IN IF r.err # NoError THEN Fail(r.err) /\ UNCHANGED <<warned, iter>>
        ELSE /\ swarm_tracker' = r.tr
             /\ state' = r.st
             /\ it' = [it EXCEPT !.swarms = Tail(@)]
             /\ UNCHANGED <<packages, nDecls, pc, order, var_tracker, err, warned, last,
                            iter, first>>

\* var_tracker.CheckRequires(); swarm_tracker.CheckRequires();
CheckRequiresStep ==
  /\ pc = "sort"
  /\ PackageDone
  /\ it.p = Len(order)
  /\ \E vord \in Orders(iter.depends["var"], var_tracker.depends_vars),
        sord \in Orders(iter.depends["swarm"], swarm_tracker.depends_vars) :
       LET e1 == CheckRequires(var_tracker, vord, 1)
           e2 == IF e1 # NoError THEN e1 ELSE CheckRequires(swarm_tracker, sord, 1)
       IN /\ iter' = IF e1 # NoError
                       THEN [iter EXCEPT !.depends["var"] = vord]
                       ELSE [iter EXCEPT !.depends["var"] = vord, !.depends["swarm"] = sord]
          /\ IF e2 # NoError THEN Fail(e2) /\ UNCHANGED warned
             ELSE /\ pc' = "overridable"
                  /\ it' = NoIt
                  /\ UNCHANGED <<packages, nDecls, order, state, var_tracker, swarm_tracker,
                                 err, warned, last, first>>

\* var_tracker.CheckOverridable(add_overridable_var);
CheckOverridableVars ==
  /\ pc = "overridable"
  /\ \E ord \in Orders(iter.overridable["var"], DOMAIN var_tracker.overridable_vars) :
       LET r == CheckOverridable(var_tracker, "var", state, warned, ord, 1) IN
       /\ iter' = [iter EXCEPT !.overridable["var"] = ord]
       /\ IF r.err # NoError THEN Fail(r.err) /\ warned' = r.warned
          ELSE /\ state' = r.st
               /\ warned' = r.warned
               /\ pc' = "overridable_swarm"
               /\ UNCHANGED <<packages, nDecls, order, it, var_tracker, swarm_tracker, err,
                              last, first>>

\* swarm_tracker.CheckOverridable(add_overridable_swarm); return state;
CheckOverridableSwarms ==
  /\ pc = "overridable_swarm"
  /\ \E ord \in Orders(iter.overridable["swarm"], DOMAIN swarm_tracker.overridable_vars) :
       LET r == CheckOverridable(swarm_tracker, "swarm", state, warned, ord, 1) IN
       /\ iter' = [iter EXCEPT !.overridable["swarm"] = ord]
       /\ IF r.err # NoError THEN Fail(r.err) /\ warned' = r.warned
          ELSE /\ state' = r.st
               /\ warned' = r.warned
               /\ pc' = "done"
               /\ UNCHANGED <<packages, nDecls, order, it, var_tracker, swarm_tracker, err,
                              last, first>>

Next ==
  \/ PackageAddField
  \/ PackageAddSwarm
  \/ PackageAddSwarmValue
  \/ StartResolve
  \/ BeginPackage
  \/ SortField
  \/ SortSparse
  \/ SortSwarm
  \/ CheckRequiresStep
  \/ CheckOverridableVars
  \/ CheckOverridableSwarms

Spec == Init /\ [][Next]_vars

\* ---------------------------------------------------------------- SpecRerun
\* a second call that finds the trackers as the first call left them
Rerun_static_trackers ==
  /\ pc \in {"done", "failed"}
  /\ first.pc = "none"
  /\ first' = [pc |-> pc, err |-> err, state |-> state]
  /\ pc' = "sort"
  /\ it' = NoIt
  /\ state' = NewDescriptor
  /\ err' = NoError
  /\ warned' = {}
  /\ UNCHANGED <<packages, nDecls, order, last, iter, var_tracker, swarm_tracker>>

\* the application calls ResolvePackages(packages) again once the first call
\* has returned or thrown: the packages are as the first call left them and
\* every container that was iterated over is iterated over in the same order
Rerun ==
  /\ pc \in {"done", "failed"}
  /\ first.pc = "none"
  /\ first' = [pc |-> pc, err |-> err, state |-> state]
  /\ pc' = "sort"
  /\ it' = NoIt
  /\ state' = NewDescriptor
  /\ var_tracker' = NewTracker
  /\ swarm_tracker' = NewTracker
  /\ err' = NoError
  /\ warned' = {}
  /\ UNCHANGED <<packages, nDecls, order, last, iter>>

NextRerun ==
  \/ PackageAddField
  \/ PackageAddSwarm
  \/ PackageAddSwarmValue
  \/ StartResolve
  \/ BeginPackage
  \/ SortField
  \/ SortSparse
  \/ SortSwarm
  \/ CheckRequiresStep
  \/ CheckOverridableVars
  \/ CheckOverridableSwarms
  \/ Rerun

SpecRerun == Init /\ [][NextRerun]_vars

\* ------------------------------------------------------------------ SpecAdd
\* calls made directly on one StateDescriptor, the variable `state`
InitAdd ==
  /\ packages = [label \in Packages |-> NewDescriptor]
  /\ nDecls = 0
  /\ pc = "add"
  /\ order = <<>>
  /\ it = NoIt
  /\ state = NewDescriptor
  /\ var_tracker = NewTracker
  /\ swarm_tracker = NewTracker
  /\ err = NoError
  /\ warned = {}
  /\ last = NoCall
  /\ iter = NoIter
  /\ first = NoOutcome

Call(op, name, swarm, m, o) ==
  /\ pc = "add"
  /\ nDecls < MaxCalls
  /\ state' = o.sd
  /\ last' = [op |-> op, name |-> name, swarm |-> swarm, m |-> m, ret |-> o.ret]
  /\ nDecls' = nDecls + 1
  /\ UNCHANGED <<packages, pc, order, it, var_tracker, swarm_tracker, err, warned, iter,
                 first>>

\* state->AddField(name, m)
CallAddField ==
  \E name \in Names, m \in AddMetas : Call("AddField", name, "", m, AddField(state, name, m))

\* state->AddSwarm(name, m)
CallAddSwarm ==
  \E name \in Names :
    LET m == PlainMeta(Provides, 1, "") IN
    Call("AddSwarm", name, "", m, AddSwarm(state, name, m))

\* state->AddSwarmValue(value, swarm, m)
CallAddSwarmValue ==
  \E value \in ValueNames, swarm \in Names, s \in Shapes :
    LET m == PlainMeta(None, s, "") IN
    Call("AddSwarmValue", value, swarm, m, AddSwarmValue(state, value, swarm, m))

NextAdd == CallAddField \/ CallAddSwarm \/ CallAddSwarmValue

SpecAdd == InitAdd /\ [][NextAdd]_vars

\* ======================================================================
\* Properties
\* ======================================================================
\* what the packages declare, with unset dependencies read as ValidateMetadata
\* leaves them
SparseList(sd, name) ==
  IF name \in DOMAIN sd.sparseMetadataMap THEN sd.sparseMetadataMap[name] ELSE <<>>

SparseRecords(sd, name) == {SparseList(sd, name)[i] : i \in DOMAIN SparseList(sd, name)}

PlainRecords(sd, name) ==
  IF name \in DOMAIN sd.metadataMap THEN {sd.metadataMap[name]} ELSE {}

SwarmRecords(sd, name) ==
  IF name \in DOMAIN sd.swarmMetadataMap THEN {sd.swarmMetadataMap[name]} ELSE {}

\* the records package `label` declares under `name` in the namespace `kind`
\* ("var": dense and sparse fields, "swarm": swarms)
Declared(kind, label, name) ==
  IF kind = "var"
    THEN PlainRecords(packages[label], name) \cup SparseRecords(packages[label], name)
    ELSE SwarmRecords(packages[label], name)

Declares(kind, label, name, dep) ==
  \E m \in Declared(kind, label, name) : Validated(m).dep = dep

Kinds == {"var", "swarm"}

Ended == pc \in {"done", "failed"}

IdsOf(mvec) == {mvec[i].id : i \in DOMAIN mvec}

\* ---------------------------------------------------------------------- C1
\* the only declaration of the run: one package holds the sparse field Y with
\* ids 1 and 2, both Provides
C1_Input ==
  \E label \in Packages :
    /\ \A other \in Packages \ {label} : packages[other] = NewDescriptor
    /\ packages[label].metadataMap = EmptyMap
    /\ packages[label].swarmMetadataMap = EmptyMap
    /\ DOMAIN packages[label].sparseMetadataMap = {"Y"}
    /\ LET mvec == packages[label].sparseMetadataMap["Y"] IN
         /\ Len(mvec) = 2
         /\ IdsOf(mvec) = {1, 2}
         /\ \A i \in 1..2 : mvec[i].dep = Provides

\* C1: when one package alone provides sparse Y with ids 1 and 2,
\* ResolvePackages raises no error and returns a state whose list for Y holds
\* exactly two records, ids 1 and 2.
C1_SparseProvidedTwoIds ==
  C1_Input =>
    /\ pc # "failed"
    /\ pc = "done" =>
         /\ Len(SparseList(state, "Y")) = 2
         /\ IdsOf(SparseList(state, "Y")) = {1, 2}

\* ---------------------------------------------------------------------- C2
\* C2: the ids in every sparse list of a descriptor are pairwise distinct.
C2_SparseIdsDistinct ==
  \A name \in DOMAIN state.sparseMetadataMap :
    \A i, j \in DOMAIN state.sparseMetadataMap[name] :
      i # j => state.sparseMetadataMap[name][i].id # state.sparseMetadataMap[name][j].id

\* ---------------------------------------------------------------------- C3
\* the Provides declarations of `name` in the namespace `kind`: one per dense
\* field or swarm, one per sparse id
ProvidesDecls(kind, name) ==
  IF kind = "var"
    THEN {<<label, 0>> : label \in {l \in Packages :
                           \E m \in PlainRecords(packages[l], name) : Validated(m).dep = Provides}}
         \cup UNION {{<<label, i>> : i \in {j \in DOMAIN SparseList(packages[label], name) :
                        Validated(SparseList(packages[label], name)[j]).dep = Provides}} :
                     label \in Packages}
    ELSE {<<label, 0>> : label \in {l \in Packages :
                           \E m \in SwarmRecords(packages[l], name) : Validated(m).dep = Provides}}

Providers(kind, name) == {label \in Packages : Declares(kind, label, name, Provides)}

\* the names some namespace holds more than one Provides declaration of
MultiplyProvided ==
  {name \in Names : \E kind \in Kinds : Cardinality(ProvidesDecls(kind, name)) > 1}

\* C3: once the first loop is over, a name that two packages provide in one
\* namespace has made ResolvePackages throw the duplicate-provider error, for
\* every classification order; the error names that variable (or another
\* variable provided more than once, met earlier); no state is returned.
\* A duplicate-provider error names a variable provided more than once within
\* one namespace: a field and a swarm of the same name do not conflict.
C3_DuplicateProvider ==
  /\ \A kind \in Kinds, name \in Names :
       (Cardinality(Providers(kind, name)) >= 2 /\ pc \notin {"build", "sort"}) =>
         /\ pc = "failed"
         /\ state = NewDescriptor
         /\ err.kind = "DuplicateProvider"
         /\ err.var \in MultiplyProvided
         /\ MultiplyProvided = {name} => err.var = name
  /\ (pc = "failed" /\ err.kind = "DuplicateProvider") => err.var \in MultiplyProvided

\* two packages provide the dense field X and the run failed on it
C3_Witness ==
  /\ pc = "failed"
  /\ err = Error("DuplicateProvider", "X")
  /\ \A label \in Packages :
       \E m \in PlainRecords(packages[label], "X") : Validated(m).dep = Provides

\* ---------------------------------------------------------------------- C4
RequiredNames(kind) ==
  {name \in Names : \E label \in Packages : Declares(kind, label, name, Requires)}

ProvidedNames(kind) ==
  {name \in Names : \E label \in Packages : Declares(kind, label, name, Provides)}

Unsatisfied(kind) == RequiredNames(kind) \ ProvidedNames(kind)

\* the first loop is over: the next step is the pair of CheckRequires calls
AtCheckRequires == pc = "sort" /\ PackageDone /\ it.p = Len(order)

\* the returned state binds `name` once, to what package `label` declares
BoundTo(kind, name, label) ==
  IF kind = "swarm"
    THEN /\ name \in DOMAIN state.swarmMetadataMap
         /\ state.swarmMetadataMap[name] = packages[label].swarmMetadataMap[name]
         /\ AllSwarmValues(state, name) = AllSwarmValues(packages[label], name)
    ELSE IF \E m \in PlainRecords(packages[label], name) : m.dep = Provides
           THEN /\ name \in DOMAIN state.metadataMap
                /\ state.metadataMap[name] = packages[label].metadataMap[name]
                /\ name \notin DOMAIN state.sparseMetadataMap
           ELSE /\ name \notin DOMAIN state.metadataMap
                /\ SparseList(state, name) = SparseList(packages[label], name)
                /\ SparseList(state, name) # <<>>

C4_Passed ==
  /\ pc \in {"overridable", "overridable_swarm", "done"} =>
       \A kind \in Kinds : Unsatisfied(kind) = {}
  /\ pc = "done" =>
       \A kind \in Kinds, name \in Names, a \in Packages, b \in Packages :
         (Declares(kind, a, name, Requires) /\ Declares(kind, b, name, Provides)) =>
           BoundTo(kind, name, b)
  /\ (pc = "failed" /\ err.kind = "UnsatisfiedRequirement") =>
       \E kind \in Kinds : err.var \in Unsatisfied(kind)

C4_CheckStep ==
  AtCheckRequires =>
    IF \A kind \in Kinds : Unsatisfied(kind) = {}
      THEN pc' = "overridable"
      ELSE /\ pc' = "failed"
           /\ err'.kind = "UnsatisfiedRequirement"
           /\ err'.var \in (IF Unsatisfied("var") # {} THEN Unsatisfied("var")
                                                       ELSE Unsatisfied("swarm"))

\* C4: the requirement check passes exactly when every name some package
\* Requires is Provided by some package in the same namespace, in every
\* classification order; otherwise it throws the unsatisfied-requirement
\* error naming a required name that nobody provides (fields are checked
\* before swarms); a name required by one package and provided by another is
\* bound once in the returned state, to the provider's metadata.
C4_RequirementCheck == []C4_Passed /\ [][C4_CheckStep]_vars

\* B requires the dense field X, A provides it, A was classified last, and
\* the run returned
C4_Witness ==
  /\ pc = "done"
  /\ order = <<"B", "A">>
  /\ \E m \in PlainRecords(packages["B"], "X") : m.dep = Requires
  /\ \E m \in PlainRecords(packages["A"], "X") : m.dep = Provides
  /\ "X" \in DOMAIN state.metadataMap

\* ---------------------------------------------------------------------- C5
\* every declaration of the run is an Overridable declaration of `name` by
\* package a or the one Provides declaration of `name` by package b
OnlyOverridableAndProvided(kind, name, a, b) ==
  /\ a # b
  /\ Declares(kind, a, name, Overridable)
  /\ Cardinality(ProvidesDecls(kind, name)) = 1
  /\ \A k \in Kinds, l \in Packages, n \in Names :
       Declared(k, l, n) # {} =>
         /\ k = kind
         /\ n = name
         /\ l = a => \A m \in Declared(k, l, n) : m.dep = Overridable
         /\ l = b => \A m \in Declared(k, l, n) : Validated(m).dep = Provides

\* the names bound in the resolved state under a bare (unqualified) name
BareBound(kind) ==
  IF kind = "var"
    THEN Names \cap (DOMAIN state.metadataMap \cup DOMAIN state.sparseMetadataMap)
    ELSE Names \cap DOMAIN state.swarmMetadataMap

\* the packages the first loop has reached so far
Visited == {order[i] : i \in 1..it.p}

OverridableEverywhere(name) ==
  /\ \A label \in Packages :
       /\ \E m \in PlainRecords(packages[label], name) : m.dep = Overridable
       /\ SparseList(packages[label], name) = <<>>

\* every declaration of the run is a dense Overridable declaration of `name`
OnlyOverridable(name) ==
  /\ OverridableEverywhere(name)
  /\ \A k \in Kinds, l \in Packages, n \in Names :
       Declared(k, l, n) # {} => (k = "var" /\ n = name)

\* C6: a dense field Overridable in two packages and provided by none: the
\* returned state holds the bare name once, bound to the unmodified metadata
\* of the package classified first, and the warning was printed; a run with
\* no other declaration returns.
C6_AmbiguousOverridable ==
  \A name \in Names :
    /\ (pc = "done" /\ OverridableEverywhere(name)) =>
         /\ name \in DOMAIN state.metadataMap
         /\ state.metadataMap[name] = packages[order[1]].metadataMap[name]
         /\ name \notin DOMAIN state.sparseMetadataMap
         /\ <<"var", name>> \in warned
    /\ OnlyOverridable(name) => pc # "failed"

\* both packages declare the dense field X Overridable, B was classified first
\* and the run returned
C6_Witness ==
  /\ pc = "done"
  /\ order = <<"B", "A">>
  /\ OverridableEverywhere("X")
  /\ state.metadataMap["X"] = packages["B"].metadataMap["X"]
  /\ state.metadataMap["X"] # packages["A"].metadataMap["X"]

\* ---------------------------------------------------------------------- C7
\* the sparse Overridable records of `name`, in classification order
RECURSIVE OverridableSparse(_, _)
OverridableSparse(name, n) ==
  IF n = 0 THEN <<>>
  ELSE OverridableSparse(name, n - 1)
         \o SelectSeq(SparseList(packages[order[n]], name),
                      LAMBDA m : m.dep = Overridable)

\* the first record of each id, in the order the ids first occur
RECURSIVE FirstPerId(_)
FirstPerId(mvec) ==
  IF mvec = <<>> THEN <<>>
  ELSE LET front == FirstPerId(SubSeq(mvec, 1, Len(mvec) - 1))
           m == mvec[Len(mvec)]
       IN IF m.id \in IdsOf(front) THEN front ELSE Append(front, m)

CandidateList(name) ==
  IF name \in DOMAIN var_tracker.overridable_meta
    THEN var_tracker.overridable_meta[name]
    ELSE <<>>

\* C7: for a sparse name registered Overridable and never provided, the
\* candidate list holds one record per distinct id, the first one classified
\* for that id, and the returned state holds exactly those records under the
\* bare name; later registrations of an id change neither.
C7_FirstPerSparseId ==
  \A name \in Names :
    /\ pc \in {"overridable", "overridable_swarm", "done"} =>
         SelectSeq(CandidateList(name), LAMBDA m : m.sparse)
           = FirstPerId(OverridableSparse(name, Len(order)))
    /\ (pc = "done" /\ name \notin ProvidedNames("var")) =>
         SparseList(state, name) = FirstPerId(OverridableSparse(name, Len(order)))

\* both packages register id 1 of the sparse field Y as Overridable with
\* different metadata, A has a second id, and the run returned
C7_Witness ==
  /\ pc = "done"
  /\ order = <<"A", "B">>
  /\ Len(OverridableSparse("Y", 2)) = 3
  /\ Len(SparseList(state, "Y")) = 2
  /\ SparseList(packages["B"], "Y")[1].id = SparseList(packages["A"], "Y")[1].id
  /\ SparseList(packages["B"], "Y")[1] # SparseList(packages["A"], "Y")[1]

\* ---------------------------------------------------------------------- C8
\* C8: whatever a package declares Private is in the returned state only
\* under its package-qualified name: the entry "P::X" exists, and no record of
\* a Private declaration is stored under a bare name.
C8_PrivateOnlyQualified ==
  pc = "done" =>
    /\ \A name \in Names :
         \A m \in PlainRecords(state, name) \cup SparseRecords(state, name)
                    \cup SwarmRecords(state, name) : m.dep # Private
    /\ \A label \in Packages, name \in Names :
         /\ (\E m \in PlainRecords(packages[label], name) : m.dep = Private)
              => QualifiedName(label, name) \in DOMAIN state.metadataMap
         /\ (\E m \in SparseRecords(packages[label], name) : m.dep = Private)
              => QualifiedName(label, name) \in DOMAIN state.sparseMetadataMap
         /\ (\E m \in SwarmRecords(packages[label], name) : m.dep = Private)
              => QualifiedName(label, name) \in DOMAIN state.swarmMetadataMap

\* ---------------------------------------------------------------------- C9
\* C9: during the first loop every sparse record stored under a bare name is
\* a Provides record and every sparse record stored under a qualified name is
\* a Private record: no id is installed because of the kind of a sibling id.
C9_SparseIdOwnKind ==
  pc = "sort" =>
    \A key \in DOMAIN state.sparseMetadataMap :
      \A i \in DOMAIN state.sparseMetadataMap[key] :
        state.sparseMetadataMap[key][i].dep = (IF key \in Names THEN Provides ELSE Private)

\* --------------------------------------------------------------------- C10
\* C10: no name is a key of both the dense-field map and the sparse-field map
\* of the state ResolvePackages returns.
C10_PlainSparseDisjoint ==
  pc = "done" => DOMAIN state.metadataMap \cap DOMAIN state.sparseMetadataMap = {}

\* --------------------------------------------------------------------- C11
\* package `label` is the only package that declares `name` Provides, and it
\* declares it as a dense field
SoleDenseProvider(label, name) ==
  /\ \E m \in PlainRecords(packages[label], name) : Validated(m).dep = Provides
  /\ Providers("var", name) = {label}

\* C11: a dense field that exactly one package provides is, in the returned
\* state, a key of the dense-field map under its bare name and of no other
\* field map, bound to a record equal in every component (dependency, sparse
\* flag, id, shape, association) to the record the provider holds for it.
C11_SoleProviderBound ==
  pc = "done" =>
    \A label \in Packages, name \in Names :
      SoleDenseProvider(label, name) =>
        /\ name \in DOMAIN state.metadataMap
        /\ state.metadataMap[name] = packages[label].metadataMap[name]
        /\ name \notin DOMAIN state.sparseMetadataMap
        /\ QualifiedName(label, name) \notin DOMAIN state.metadataMap

\* A alone provides the dense field X, B holds a Private X of another shape,
\* and the run returned both
C11_Witness ==
  /\ pc = "done"
  /\ SoleDenseProvider("A", "X")
  /\ \E m \in PlainRecords(packages["B"], "X") : m.dep = Private
  /\ state.metadataMap["X"] = packages["A"].metadataMap["X"]
  /\ state.metadataMap["B::X"] = packages["B"].metadataMap["X"]
  /\ state.metadataMap["X"] # state.metadataMap["B::X"]

\* --------------------------------------------------------------------- C12
\* the first loop is over and nothing was thrown so far
PhaseOneOver == pc \in {"overridable", "overridable_swarm", "done"}

\* the swarm stored under `key` is the swarm `name` of package `label`: its
\* metadata and exactly its values, each with the package's metadata
SwarmCopied(key, label, name) ==
  /\ key \in DOMAIN state.swarmMetadataMap
  /\ state.swarmMetadataMap[key] = packages[label].swarmMetadataMap[name]
  /\ AllSwarmValues(state, key) = AllSwarmValues(packages[label], name)

\* C12: once the first loop is over, a swarm S that package P declares Private
\* is stored under "P::S" and a swarm that P declares Provides is stored
\* under S, in both cases with exactly the values P holds for S and their
\* metadata; the later phases change neither.
C12_SwarmValuesCopied ==
  PhaseOneOver =>
    \A label \in Packages, name \in Names :
      /\ (\E m \in SwarmRecords(packages[label], name) : m.dep = Private)
           => SwarmCopied(QualifiedName(label, name), label, name)
      /\ (\E m \in SwarmRecords(packages[label], name) : m.dep = Provides)
           => SwarmCopied(name, label, name)

\* A holds the swarm X Private with one value, B provides X without values,
\* and the run returned "A::X" with A's value and X with none
C12_Witness ==
  /\ pc = "done"
  /\ \E m \in SwarmRecords(packages["A"], "X") : m.dep = Private
  /\ \E m \in SwarmRecords(packages["B"], "X") : m.dep = Provides
  /\ DOMAIN AllSwarmValues(packages["A"], "X") = {"v"}
  /\ DOMAIN AllSwarmValues(state, "A::X") = {"v"}
  /\ AllSwarmValues(state, "A::X")["v"] = AllSwarmValues(packages["A"], "X")["v"]
  /\ DOMAIN AllSwarmValues(state, "X") = {}

\* --------------------------------------------------------------------- C13
\* C13: a swarm S that some package declares Overridable and no package
\* provides is, in the returned state, stored under S with the metadata and
\* exactly the values of one and the same package that declares S Overridable.
C13_OverridableSwarmSource ==
  pc = "done" =>
    \A name \in Names :
      ((\E label \in Packages : Declares("swarm", label, name, Overridable))
         /\ name \notin ProvidedNames("swarm")) =>
        \E label \in Packages :
          /\ Declares("swarm", label, name, Overridable)
          /\ SwarmCopied(name, label, name)

\* --------------------------------------------------------------------- C14
\* the step is the call op(...) on the descriptor
Called(op) == pc = "add" /\ nDecls' = nDecls + 1 /\ last'.op = op

C14_SwarmsOfValuesExist ==
  pc = "add" => DOMAIN state.swarmValueMetadataMap \subseteq DOMAIN state.swarmMetadataMap

C14_CallStep ==
  Called("AddSwarmValue") =>
    LET value == last'.name
        swarm == last'.swarm
    IN IF swarm \notin DOMAIN state.swarmMetadataMap
         THEN last'.ret = "UnknownSwarm" /\ state' = state
         ELSE IF value \in DOMAIN AllSwarmValues(state, swarm)
                THEN last'.ret = "DuplicateSwarmValue" /\ state' = state
                ELSE /\ last'.ret = "true"
                     /\ state'.swarmMetadataMap = state.swarmMetadataMap
                     /\ state'.metadataMap = state.metadataMap
                     /\ state'.sparseMetadataMap = state.sparseMetadataMap
                     /\ DOMAIN AllSwarmValues(state', swarm)
                          = DOMAIN AllSwarmValues(state, swarm) \cup {value}
                     /\ AllSwarmValues(state', swarm)[value] = last'.m
                     /\ \A v \in DOMAIN AllSwarmValues(state, swarm) :
                          AllSwarmValues(state', swarm)[v] = AllSwarmValues(state, swarm)[v]
                     /\ \A s \in (DOMAIN state.swarmMetadataMap) \ {swarm} :
                          AllSwarmValues(state', s) = AllSwarmValues(state, s)

\* C14: AddSwarmValue(value, swarm, m) throws when the descriptor has no such
\* swarm and when the swarm already has a value of that name, and then the
\* descriptor is unchanged; otherwise it returns true having added exactly
\* that value with metadata m and changed nothing else. Every swarm that
\* holds values is in the swarm map.
C14_AddSwarmValue == []C14_SwarmsOfValuesExist /\ [][C14_CallStep]_vars

\* the last call re-added a value of an existing swarm with other metadata
\* and was rejected
C14_Witness ==
  /\ last.op = "AddSwarmValue"
  /\ last.ret = "DuplicateSwarmValue"
  /\ AllSwarmValues(state, last.swarm)[last.name] # last.m
  /\ Cardinality(DOMAIN AllSwarmValues(state, last.swarm)) = 2

\* --------------------------------------------------------------------- C15
C15_CallStep ==
  (Called("AddField") /\ ~last'.m.sparse) =>
    LET name == last'.name IN
    /\ IF name \in DOMAIN state.metadataMap
         THEN last'.ret = "false" /\ state' = state
         ELSE /\ last'.ret = "true"
              /\ DOMAIN state'.metadataMap = DOMAIN state.metadataMap \cup {name}
              /\ \A k \in DOMAIN state.metadataMap : state'.metadataMap[k] = state.metadataMap[k]
              /\ Associate(state'.metadataMap[name], "") = Associate(last'.m, "")
              /\ state'.sparseMetadataMap = state.sparseMetadataMap
              /\ state'.swarmMetadataMap = state.swarmMetadataMap
              /\ state'.swarmValueMetadataMap = state.swarmValueMetadataMap
    /\ last'.ret = "true" <=> state' # state

\* C15: AddField with dense metadata on a name the dense-field map holds
\* returns false, throws nothing and leaves the descriptor unchanged; on a new
\* name it returns true and adds that one entry (the given metadata, up to
\* its association), changing nothing else. It returns true exactly when the
\* descriptor changed.
C15_PlainFirstWins == [][C15_CallStep]_vars

\* the last call offered other metadata for a dense field already stored and
\* returned false
C15_Witness ==
  /\ last.op = "AddField"
  /\ ~last.m.sparse
  /\ last.ret = "false"
  /\ state.metadataMap[last.name].shape # last.m.shape

\* --------------------------------------------------------------------- C16
C16_ListsSparseEqual ==
  \A key \in DOMAIN state.sparseMetadataMap :
    \A i \in DOMAIN state.sparseMetadataMap[key] :
      SparseEqual(state.sparseMetadataMap[key][1], state.sparseMetadataMap[key][i])

C16_CallStep ==
  (/\ Called("AddField")
   /\ last'.m.sparse
   /\ last'.name \in DOMAIN state.sparseMetadataMap
   /\ ~SparseEqual(state.sparseMetadataMap[last'.name][1], last'.m)) =>
    /\ last'.ret = "SparseMismatch"
    /\ state' = state

\* C16: AddField with sparse metadata whose shape and flags differ from the
\* first record stored under that name throws the sparse-mismatch error,
\* whether or not its id is in the list, and leaves the descriptor unchanged;
\* every record of every sparse list is SparseEqual to the first of its list.
C16_SparseMismatch == []C16_ListsSparseEqual /\ [][C16_CallStep]_vars

\* the last call offered an id the list holds, with another shape, and threw
C16_Witness ==
  /\ last.op = "AddField"
  /\ last.m.sparse
  /\ last.ret = "SparseMismatch"
  /\ last.m.id \in IdsOf(SparseList(state, last.name))
  /\ Len(SparseList(state, last.name)) = 2

\* --------------------------------------------------------------------- C18
\* the packages that declare `name` Overridable in the namespace `kind`
OverridableDeclarers(kind, name) ==
  {label \in Packages : Declares(kind, label, name, Overridable)}

\* C18: when ResolvePackages returns, the warning was printed for a name
\* exactly when more than one package declares it Overridable and no package
\* provides it; a name that one package alone declares Overridable, with
\* however many sparse ids, gets no warning.
C18_WarningExactly ==
  pc = "done" =>
    \A kind \in Kinds :
      \A name \in Names :
        <<kind, name>> \in warned
          <=> (Cardinality(OverridableDeclarers(kind, name)) > 1
                 /\ name \notin ProvidedNames(kind))

\* --------------------------------------------------------------------- C20
ConcreteKinds == {Private, Provides, Requires, Overridable}

\* every dense field, sparse id and swarm of the descriptor
AllRecords(sd) ==
  UNION {PlainRecords(sd, k) : k \in DOMAIN sd.metadataMap}
    \cup UNION {SparseRecords(sd, k) : k \in DOMAIN sd.sparseMetadataMap}
    \cup UNION {SwarmRecords(sd, k) : k \in DOMAIN sd.swarmMetadataMap}

\* record `new` is record `old` with its kind set if it was unset
Normalized(old, new) ==
  /\ new.dep \in ConcreteKinds
  /\ old.dep # None => new = old
  /\ [new EXCEPT !.dep = old.dep] = old

\* descriptor `new` is descriptor `old` with every record normalized
NormalizedDescriptor(old, new) ==
  /\ DOMAIN new.metadataMap = DOMAIN old.metadataMap
  /\ \A k \in DOMAIN old.metadataMap : Normalized(old.metadataMap[k], new.metadataMap[k])
  /\ DOMAIN new.sparseMetadataMap = DOMAIN old.sparseMetadataMap
  /\ \A k \in DOMAIN old.sparseMetadataMap :
       /\ Len(new.sparseMetadataMap[k]) = Len(old.sparseMetadataMap[k])
       /\ \A i \in DOMAIN old.sparseMetadataMap[k] :
            Normalized(old.sparseMetadataMap[k][i], new.sparseMetadataMap[k][i])
  /\ DOMAIN new.swarmMetadataMap = DOMAIN old.swarmMetadataMap
  /\ \A k \in DOMAIN old.swarmMetadataMap :
       Normalized(old.swarmMetadataMap[k], new.swarmMetadataMap[k])
  /\ new.swarmValueMetadataMap = old.swarmValueMetadataMap

\* the step is the head of the first loop's body for the next package
C20_NormalizeStep ==
  (pc = "sort" /\ it'.p = it.p + 1) =>
    LET label == order[it'.p] IN
    /\ NormalizedDescriptor(packages[label], packages'[label])
    /\ ValidateMetadata(packages'[label]) = packages'[label]
    /\ \A other \in Packages \ {label} : packages'[other] = packages[other]

C20_Classified ==
  /\ pc = "sort" => \A label \in Visited : \A m \in AllRecords(packages[label]) :
                       m.dep \in ConcreteKinds
  /\ err.kind # "UnknownDependency"

\* C20: ValidateMetadata gives every dense field, sparse id and swarm of the
\* package one of the four kinds, keeps every kind already set, changes
\* nothing but the unset kinds, and applied again changes nothing; every
\* record Sort is called with belongs to a package already normalized, and
\* ResolvePackages never throws the unknown-dependency error.
C20_Normalization == []C20_Classified /\ [][C20_NormalizeStep]_vars

\* the package visited first holds a swarm and sparse ids, all classified,
\* while the other package still holds a record whose kind is unset
C20_Witness ==
  /\ pc = "sort"
  /\ it.p = 1
  /\ PackageDone
  /\ DOMAIN packages[order[1]].sparseMetadataMap # {}
  /\ DOMAIN packages[order[1]].swarmMetadataMap # {}
  /\ \E m \in AllRecords(packages[order[2]]) : m.dep = None

\* --------------------------------------------------------------------- C19
\* the values add_overridable_swarm copies when its loop over the packages
\* visits them in the order ord
ValuesFoundIn(ord, swarm) ==
  LET holders == SelectSeq(ord, LAMBDA label : SwarmPresent(packages[label], swarm)) IN
  IF holders = <<>> THEN EmptyMap ELSE AllSwarmValues(packages[holders[1]], swarm)

\* the swarms CheckOverridable installs
OverridableSwarmsInstalled ==
  (DOMAIN swarm_tracker.overridable_vars) \ swarm_tracker.provided_vars

\* C19: with the trackers as the first loop left them, CheckRequires passes
\* for one visiting order of the required names exactly when it passes for
\* every order; CheckOverridable fails for one visiting order of the
\* overridable names exactly when it fails for every order and otherwise
\* leaves the same state for every order; and the values of an overridable
\* swarm in the returned state are those the search over the packages finds
\* in every order of the packages.
C19_PhaseOrderIndependent ==
  /\ AtCheckRequires =>
       \A tr \in {var_tracker, swarm_tracker} :
         \A o1 \in Perms(tr.depends_vars), o2 \in Perms(tr.depends_vars) :
           (CheckRequires(tr, o1, 1) = NoError) <=> (CheckRequires(tr, o2, 1) = NoError)
  /\ pc = "overridable" =>
       \A o1 \in Perms(DOMAIN var_tracker.overridable_vars),
          o2 \in Perms(DOMAIN var_tracker.overridable_vars) :
         LET r1 == CheckOverridable(var_tracker, "var", state, warned, o1, 1)
             r2 == CheckOverridable(var_tracker, "var", state, warned, o2, 1)
         IN /\ (r1.err = NoError) <=> (r2.err = NoError)
            /\ r1.err = NoError => r1.st = r2.st
  /\ pc = "overridable_swarm" =>
       \A o1 \in Perms(DOMAIN swarm_tracker.overridable_vars),
          o2 \in Perms(DOMAIN swarm_tracker.overridable_vars) :
         LET r1 == CheckOverridable(swarm_tracker, "swarm", state, warned, o1, 1)
             r2 == CheckOverridable(swarm_tracker, "swarm", state, warned, o2, 1)
         IN /\ (r1.err = NoError) <=> (r2.err = NoError)
            /\ r1.err = NoError => r1.st = r2.st
  /\ pc = "done" =>
       \A swarm \in OverridableSwarmsInstalled :
         \A ord \in Perms(Packages) :
           AllSwarmValues(state, swarm) = ValuesFoundIn(ord, swarm)

\* --------------------------------------------------------------------- C17
\* C17: a second call of ResolvePackages on the packages as the first call
\* left them, visiting the packages and every container in the same order,
\* ends as the first did: it throws the same error, or it returns a state
\* equal to the first one in every map (names, metadata, list lengths).
C17_SameOutcomeTwice ==
  (first.pc # "none" /\ Ended) =>
    /\ pc = first.pc
    /\ err = first.err
    /\ state = first.state

\* both calls returned; the state holds a dense field won by one of two
\* Overridable declarations and something else besides
C17_Witness ==
  /\ first.pc = "done"
  /\ pc = "done"
  /\ \E name \in Names : OverridableEverywhere(name) /\ name \in DOMAIN state.metadataMap
  /\ warned # {}
  /\ state = first.state
  /\ Cardinality(DOMAIN state.metadataMap \cup DOMAIN state.sparseMetadataMap
                   \cup DOMAIN state.swarmMetadataMap) >= 2

\* --------------------------------------------------------------------- C21
C21_StoredUnassociated ==
  pc = "add" => \A k \in DOMAIN state.metadataMap : state.metadataMap[k].assoc = ""

\* last'.m is the caller's metadata object after the call
C21_CallStep ==
  (Called("AddField") /\ ~last'.m.sparse) =>
    LET name == last'.name IN
    /\ last'.m \in AddMetas
    /\ IF name \in DOMAIN state.metadataMap
         THEN /\ last'.ret = "false"
              /\ state'.metadataMap[name].assoc = state.metadataMap[name].assoc
         ELSE /\ last'.ret = "true"
              /\ state'.metadataMap[name].assoc = ""
              /\ [state'.metadataMap[name] EXCEPT !.assoc = last'.m.assoc] = last'.m

\* C21: a dense field AddField inserts is stored with an empty association,
\* whether the metadata given carried none or an explicit one; the metadata
\* object of the caller is as it was given (the stored record differs from
\* it in the association only); a call rejected as a duplicate leaves the
\* association of the stored entry as it was.
C21_EmptyAssociation == []C21_StoredUnassociated /\ [][C21_CallStep]_vars

\* the last call inserted a dense field from metadata with an explicit
\* association: the caller's object still carries it, the stored record
\* does not
C21_Witness ==
  /\ last.op = "AddField"
  /\ ~last.m.sparse
  /\ last.ret = "true"
  /\ last.m.assoc = "Z"
  /\ state.metadataMap[last.name].assoc = ""

====
